---------------------------- MODULE Spec2Model ----------------------------
(***************************************************************************)
(* State-machine model of src/src/components/ModelViewer.vue (the second,  *)
(* configurable <script setup> block, lines 177-419): a Vue component that *)
(* owns a three.js renderer / scene / camera / OrbitControls session, one  *)
(* requestAnimationFrame render loop, a window resize listener and two     *)
(* fire-and-forget asset loads (GLB mesh, optional HDR environment map).   *)
(*                                                                         *)
(* The browser is a single-threaded event loop: every callback (mounted    *)
(* hook, frame tick, resize listener, loader callbacks, prop watcher,      *)
(* unmounted hook) runs to completion.  Each callback is one action; only  *)
(* cleanup() is unfolded into its seven statements (pc), during which no   *)
(* other callback is enabled, so that the order of its statements shows    *)
(* in the reachable states.                                                *)
(***************************************************************************)
EXTENDS Integers, Sequences, FiniteSets

--------------------------------------------------------------------------
(* Bounds of the model *)

\* container.clientWidth / clientHeight range over 0..MaxDim (0 = not laid out)
MaxDim == 2
\* requestAnimationFrame hands out the handles 1, 2, 3, ... and never one
\* twice; the model follows a page up to its MaxRafId-th frame request
MaxRafId == 3
\* the count of onResize invocations cycles through 1..MaxResizes
MaxResizes == 2

--------------------------------------------------------------------------
(* Program constants *)

\* null for object references (comparable with records and sequences)
NULL == <<>>
\* let animId = null: requestAnimationFrame never returns 0, which stands for null
NoHandle == 0
\* envMap: null; a falsy path, as line 335 tests it
NoPath == ""

DefaultWidth == 800
DefaultHeight == 600
CameraFov == 45

\* identities of the component instances a page can hold
InstIds == {1, 2}
Dims == 0 .. MaxDim

\* A color string "#rrggbb" is kept as its six hex digits.
Hex20232a == <<2, 0, 2, 3, 2, 10>>

DefaultSrc == "/models/UtensilsJar001.glb"
OtherSrc == "/models/other.glb"
StudioHdr == "/env/studio.hdr"

\* withDefaults(defineProps<Props>(), {...}); envMapIntensity is in tenths.
DefaultProps ==
  [ src |-> DefaultSrc,
    background |-> NULL,
    envMap |-> NoPath,
    envMapIntensity |-> 10,
    useEnvAsBackground |-> FALSE,
    enableShadows |-> TRUE,
    enableGround |-> TRUE ]

\* The configurations a parent passes (at mount, and on later prop changes).
Configs ==
  { DefaultProps,
    [DefaultProps EXCEPT !.background = Hex20232a, !.enableGround = FALSE,
                         !.envMap = StudioHdr, !.useEnvAsBackground = TRUE],
    [DefaultProps EXCEPT !.src = OtherSrc, !.envMap = StudioHdr,
                         !.useEnvAsBackground = TRUE, !.envMapIntensity = 15,
                         !.enableShadows = FALSE] }

--------------------------------------------------------------------------
(* Numbers.  A length is c/10 + k*K/100, where K = |1/(2*tan(fov/2))| *    *)
(* offset is the positive irrational factor of fitCameraToObject for       *)
(* fov = 45 degrees and offset = 1.25; c and k are integers.               *)

Num(c, k) == [c |-> c, k |-> k]
Vec(x, y, z) == <<x, y, z>>
Zero3 == Vec(Num(0, 0), Num(0, 0), Num(0, 0))

\* sign of c/10 + k*K/100 for the values the model builds (c, k of one sign)
IsPositive(n) == (n.c >= 0 /\ n.k >= 0) /\ (n.c > 0 \/ n.k > 0)

RECURSIVE GCD(_, _)
\* a < b for the values the model builds: b - a has parts of one sign
LessThan(a, b) == IsPositive(Num(b.c - a.c, b.k - a.k))

GCD(a, b) == IF b = 0 THEN a ELSE GCD(b, a % b)

\* w / h in IEEE arithmetic, for w, h >= 0: the reduced fraction <<n, d>>;
\* <<1, 0>> is Infinity (w > 0, h = 0) and <<0, 0>> is NaN (0 / 0)
Quotient(w, h) ==
  IF h = 0 THEN (IF w = 0 THEN <<0, 0>> ELSE <<1, 0>>)
  ELSE <<w \div GCD(w, h), h \div GCD(w, h)>>

\* a || b of JavaScript on numbers
OrElse(a, b) == IF a = 0 THEN b ELSE a

RECURSIVE ParseHex(_)
\* new THREE.Color("#rrggbb"): the hex digits as one integer
ParseHex(ds) ==
  IF ds = <<>> THEN 0 ELSE 16 * ParseHex(SubSeq(ds, 1, Len(ds) - 1)) + ds[Len(ds)]

Max2(a, b) == IF a >= b THEN a ELSE b

--------------------------------------------------------------------------
(* glTF results the loader can deliver: the bounding box of gltf.scene and *)
(* the material of its meshes (an empty asset has no mesh): a standard     *)
(* material carries a numeric envMapIntensity, a basic one does not.  The  *)
(* third asset is a single point, the fourth has no geometry at all.       *)

StandardMaterial == [envMapIntensity |-> 10, needsUpdate |-> FALSE]
BasicMaterial == [needsUpdate |-> FALSE]

Assets ==
  { [empty |-> FALSE, min |-> <<-1, -1, -1>>, max |-> <<1, 1, 1>>,
     material |-> StandardMaterial],
    [empty |-> FALSE, min |-> <<0, 0, 0>>, max |-> <<2, 4, 2>>,
     material |-> BasicMaterial],
    [empty |-> FALSE, min |-> <<1, 1, 1>>, max |-> <<1, 1, 1>>,
     material |-> BasicMaterial],
    [empty |-> TRUE, min |-> <<0, 0, 0>>, max |-> <<0, 0, 0>>,
     material |-> NULL] }

\* Box3.getSize / Box3.getCenter (both the zero vector for an empty box)
BoxSize(a) == IF a.empty THEN <<0, 0, 0>> ELSE [j \in 1 .. 3 |-> a.max[j] - a.min[j]]
\* center, in tenths
BoxCenter10(a) == IF a.empty THEN <<0, 0, 0>> ELSE [j \in 1 .. 3 |-> 5 * (a.min[j] + a.max[j])]

--------------------------------------------------------------------------
VARIABLES
  insts,            \* the component instances of the page
  lifecycle,        \* Vue lifecycle of each instance: "setup", "mounted", "unmounted"
  props,            \* current (reactive) props of each instance
  container,        \* container.value: NULL or [clientWidth, clientHeight]
  renderer,         \* let renderer: NULL or the WebGLRenderer's fields
  scene,            \* let scene: NULL or the Scene's fields
  camera,           \* let camera: NULL or the PerspectiveCamera's fields
  controls,         \* let controls: NULL or the OrbitControls' fields
  animId,           \* let animId: NoHandle or the last requestAnimationFrame handle
  disposed,         \* which of the objects created at mount had dispose() called
  root,             \* the gltf.scene handed to the success callback, after traverse
  meshReqs,         \* GLTFLoader.load calls issued: sequence of [url, state]
  envReqs,          \* RGBELoader.load calls issued: sequence of [url, state]
  rafPending,       \* frame callbacks scheduled in the browser: set of <<handle, inst>>
  rafNext,          \* next handle requestAnimationFrame returns
  resizeListeners,  \* instances whose onResize is registered on window
  unmountHooks,     \* instances whose onUnmounted callback is registered
  log,              \* console.error / console.warn entries
  thrown,           \* exceptions raised by callbacks: set of <<inst, callback>>
  drawCalls,        \* renderer.render call counter of each render target
  pc,               \* 0, or the statement of cleanup() an instance is about to run
  mountProps,       \* props as they were when the mounted hook ran (history)
  resizeCalls       \* invocations of onResize: 0 = none yet, then 1..MaxResizes cyclically

vars ==
  <<insts, lifecycle, props, container, renderer, scene, camera, controls, animId,
    disposed, root, meshReqs, envReqs, rafPending, rafNext, resizeListeners,
    unmountHooks, log, thrown, drawCalls, pc, mountProps, resizeCalls>>

\* the five module-scope lets of lines 228-232
handles == <<renderer, scene, camera, controls, animId>>

--------------------------------------------------------------------------
(* Objects created by the mounted hook *)

\* a scene that gets the ground disc whatever enableGround says
NewSceneAlwaysGround(p) ==
  [ background |-> IF p.background = NULL THEN NULL
                   ELSE [color |-> ParseHex(p.background)],
    environment |-> NULL,
    children |-> <<"hemi", "dirLight", "rimLight", "ground">> ]

\* lines 273-278 (background), 303/308/314 (lights), 323-332 (ground)
NewScene(p) ==
  [ background |-> IF p.background = NULL THEN NULL
                   ELSE [color |-> ParseHex(p.background)],
    environment |-> NULL,
    children |-> <<"hemi", "dirLight", "rimLight">>
                 \o (IF p.enableGround THEN <<"ground">> ELSE <<>>) ]

\* line 282: new THREE.PerspectiveCamera(45, width / height, 0.1, 1000)
NewCamera(w, h) ==
  [ fov |-> CameraFov,
    aspect |-> Quotient(w, h),
    near |-> Num(1, 0),
    far |-> Num(10000, 0),
    position |-> Zero3 ]

\* lines 286-292
NewRenderer(w, h, p) ==
  [ width |-> w,
    height |-> h,
    alpha |-> (p.background = NULL),
    shadowMap |-> p.enableShadows ]

\* lines 318-319
NewControls == [target |-> Zero3, enableDamping |-> TRUE]

\* module-level lets: every instance reads and writes the same five handles
SlotShared(i) == 1

\* <script setup> compiles the lets of lines 228-232 into setup(): every
\* component instance has its own renderer/scene/camera/controls/animId.
Slot(i) == i

Idle == \A j \in InstIds : pc[j] = 0

\* the frame callback of instance i that the browser still holds
Scheduled(i) == {f \in rafPending : f[2] = i}

--------------------------------------------------------------------------
InitWith(I) ==
  /\ insts = I
  /\ lifecycle = [i \in InstIds |-> "setup"]
  /\ props \in {f \in [InstIds -> Configs] : \A i \in InstIds \ I : f[i] = DefaultProps}
  /\ mountProps = [i \in InstIds |-> NULL]
  /\ container \in
       { f \in [InstIds -> {NULL} \cup [clientWidth : Dims, clientHeight : Dims]] :
           \A i \in InstIds \ I : f[i] = NULL }
  /\ renderer = [i \in InstIds |-> NULL]
  /\ scene = [i \in InstIds |-> NULL]
  /\ camera = [i \in InstIds |-> NULL]
  /\ controls = [i \in InstIds |-> NULL]
  /\ animId = [i \in InstIds |-> NoHandle]
  /\ disposed = [i \in InstIds |-> [controls |-> FALSE, renderer |-> FALSE]]
  /\ root = [i \in InstIds |-> NULL]
  /\ meshReqs = [i \in InstIds |-> <<>>]
  /\ envReqs = [i \in InstIds |-> <<>>]
  /\ rafPending = {}
  /\ rafNext = 1
  /\ resizeListeners = {}
  /\ unmountHooks = {}
  /\ log = <<>>
  /\ thrown = {}
  /\ drawCalls = [i \in InstIds |-> 0]
  /\ pc = [i \in InstIds |-> 0]
  /\ resizeCalls = [i \in InstIds |-> 0]

\* one viewer on the page (App.vue mounts a single ModelViewer)
Init == InitWith({1})

--------------------------------------------------------------------------
(* The render loop, lines 387-392 *)

\* requestAnimationFrame returns a fresh handle on every call: the handle
\* after h; a handle that was used or cancelled is never handed out again
NextHandle(h) == h + 1

\* the page has frame requests left within the bound of the model
HandlesLeft == rafNext <= MaxRafId

\* tick() without line 390: draws once and never reschedules itself
TickBodyNoReschedule(i, ren, scn, cam, from) ==
  /\ drawCalls' = [drawCalls EXCEPT ![i] =
                     IF ren # NULL THEN @ + 1 ELSE @]
  /\ rafPending' = rafPending \ from
  /\ UNCHANGED <<animId, rafNext, thrown>>

\* a tick that requests the next frame without storing its handle in animId
TickBodyDropsHandle(i, ren, scn, cam, from) ==
  /\ IF ren # NULL
     THEN /\ drawCalls' = [drawCalls EXCEPT ![i] = @ + 1]
     ELSE /\ drawCalls' = drawCalls
  /\ rafPending' = (rafPending \ from) \cup {<<rafNext, i>>}
  /\ rafNext' = NextHandle(rafNext)
  /\ UNCHANGED <<animId, thrown>>

\* One run of tick() for instance i, with the handles it sees (ren, scn, cam)
\* and the scheduled callback it was invoked from (none for the call of line
\* 392).  controls?.update() only applies damping of user input, which the
\* model has none of.  renderer.render(null, ...) raises a TypeError inside
\* three.js, and line 390 is then not reached.
TickBody(i, ren, scn, cam, from) ==
  IF ren # NULL /\ (scn = NULL \/ cam = NULL)
  THEN /\ thrown' = thrown \cup {<<i, "tick">>}
       /\ rafPending' = rafPending \ from
       /\ UNCHANGED <<drawCalls, animId, rafNext>>
  ELSE /\ drawCalls' = [drawCalls EXCEPT ![i] =
                          IF ren # NULL THEN @ + 1 ELSE @]
       /\ animId' = [animId EXCEPT ![Slot(i)] = rafNext]
       /\ rafPending' = (rafPending \ from) \cup {<<rafNext, i>>}
       /\ rafNext' = NextHandle(rafNext)
       /\ thrown' = thrown

\* the browser runs a scheduled frame callback of instance i
Tick(i) ==
  /\ Idle
  /\ HandlesLeft
  /\ \E f \in Scheduled(i) :
       TickBody(i, renderer[Slot(i)], scene[Slot(i)], camera[Slot(i)], {f})
  /\ UNCHANGED <<insts, lifecycle, props, container, renderer, scene, camera,
                 controls, disposed, root, meshReqs, envReqs, resizeListeners,
                 unmountHooks, log, pc, mountProps, resizeCalls>>

--------------------------------------------------------------------------
(* onMounted, lines 265-411 *)

\* the guard of line 266 placed after the registrations of lines 404-410
MountAbortRegisters(i) ==
  /\ resizeListeners' = resizeListeners \cup {i}
  /\ unmountHooks' = unmountHooks \cup {i}
  /\ UNCHANGED <<renderer, scene, camera, controls, animId, meshReqs, envReqs,
                 rafPending, rafNext, drawCalls, thrown>>

\* line 266: if (!container.value) return -- nothing else of the hook runs
MountAbort(i) ==
  UNCHANGED <<renderer, scene, camera, controls, animId, meshReqs, envReqs,
              rafPending, rafNext, resizeListeners, unmountHooks, drawCalls,
              thrown>>

\* lines 268-410 for a container c and the props p read while the hook runs
MountSession(i, c, p) ==
  LET width == OrElse(c.clientWidth, DefaultWidth)
      height == OrElse(c.clientHeight, DefaultHeight)
  IN  /\ scene' = [scene EXCEPT ![Slot(i)] = NewScene(p)]
      /\ camera' = [camera EXCEPT ![Slot(i)] = NewCamera(width, height)]
      /\ renderer' = [renderer EXCEPT ![Slot(i)] = NewRenderer(width, height, p)]
      /\ controls' = [controls EXCEPT ![Slot(i)] = NewControls]
      /\ envReqs' = [envReqs EXCEPT ![i] =
                       IF p.envMap # NoPath
                       THEN Append(@, [url |-> p.envMap, state |-> "pending"])
                       ELSE @]
      /\ meshReqs' = [meshReqs EXCEPT ![i] =
                        Append(@, [url |-> p.src, state |-> "pending"])]
      /\ TickBody(i, renderer'[Slot(i)], scene'[Slot(i)], camera'[Slot(i)], {})
      /\ resizeListeners' = resizeListeners \cup {i}
      /\ unmountHooks' = unmountHooks \cup {i}

Mount(i) ==
  /\ Idle
  /\ lifecycle[i] = "setup"
  /\ container[i] = NULL \/ HandlesLeft
  /\ lifecycle' = [lifecycle EXCEPT ![i] = "mounted"]
  /\ mountProps' = [mountProps EXCEPT ![i] = props[i]]
  /\ IF container[i] = NULL THEN MountAbort(i)
                            ELSE MountSession(i, container[i], props[i])
  /\ UNCHANGED <<insts, props, container, disposed, root, log, pc, resizeCalls>>

--------------------------------------------------------------------------
(* onResize, lines 396-403 *)

\* onResize guarding on the container only, the rest by optional chaining
OnResizeContainerOnly(i, c) ==
  IF c = NULL
  THEN UNCHANGED <<renderer, camera>>
  ELSE /\ renderer' = IF renderer[Slot(i)] = NULL THEN renderer
                      ELSE [renderer EXCEPT ![Slot(i)].width = c.clientWidth,
                                            ![Slot(i)].height = c.clientHeight]
       /\ camera' = IF camera[Slot(i)] = NULL THEN camera
                    ELSE [camera EXCEPT ![Slot(i)].aspect =
                                          Quotient(c.clientWidth, c.clientHeight)]

\* onResize without line 401: the camera keeps the aspect it had
OnResizeKeepsAspect(i, c) ==
  IF c = NULL \/ renderer[Slot(i)] = NULL \/ camera[Slot(i)] = NULL
  THEN UNCHANGED <<renderer, camera>>
  ELSE /\ renderer' = [renderer EXCEPT ![Slot(i)].width = c.clientWidth,
                                       ![Slot(i)].height = c.clientHeight]
       /\ camera' = camera

\* the listener body, reading the container as it is when the listener runs
OnResize(i, c) ==
  IF c = NULL \/ renderer[Slot(i)] = NULL \/ camera[Slot(i)] = NULL
  THEN UNCHANGED <<renderer, camera>>
  ELSE /\ renderer' = [renderer EXCEPT ![Slot(i)].width = c.clientWidth,
                                       ![Slot(i)].height = c.clientHeight]
       /\ camera' = [camera EXCEPT ![Slot(i)].aspect =
                                     Quotient(c.clientWidth, c.clientHeight)]

\* onResize is invoked after the container (if any) took the dimensions w x h
DeliverResize(i, w, h) ==
  /\ container' = [container EXCEPT ![i] =
                     IF @ = NULL THEN NULL ELSE [clientWidth |-> w, clientHeight |-> h]]
  /\ OnResize(i, container'[i])
  /\ resizeCalls' = [resizeCalls EXCEPT ![i] = (@ % MaxResizes) + 1]
  /\ UNCHANGED <<insts, lifecycle, props, scene, controls, animId, disposed, root,
                 meshReqs, envReqs, rafPending, rafNext, resizeListeners,
                 unmountHooks, log, thrown, drawCalls, pc, mountProps>>

\* window dispatches 'resize' to the registered listener of instance i
ResizeEvent(i) ==
  /\ Idle
  /\ i \in resizeListeners
  /\ \E w \in Dims, h \in Dims : DeliverResize(i, w, h)

--------------------------------------------------------------------------
(* fitCameraToObject, lines 247-263 *)

\* cameraZ = |maxDim / 2 / tan(fov / 2)| * offset = maxDim * K: its K-part, in
\* hundredths of K
CameraZ(a) == 100 * Max2(BoxSize(a)[1], Max2(BoxSize(a)[2], BoxSize(a)[3]))

\* a fit that hands the two clipping distances to the wrong planes
FitCameraPlanesSwapped(cam, a) ==
  [cam EXCEPT
     !.position = Vec(Num(BoxCenter10(a)[1], CameraZ(a)),
                      Num(BoxCenter10(a)[2], (CameraZ(a) * 6) \div 10),
                      Num(BoxCenter10(a)[3], CameraZ(a))),
     !.near = Num(0, CameraZ(a) * 100),
     !.far = Num(0, CameraZ(a) \div 100)]

\* lines 257-260 on the camera object
FitCamera(cam, a) ==
  [cam EXCEPT
     !.position = Vec(Num(BoxCenter10(a)[1], CameraZ(a)),
                      Num(BoxCenter10(a)[2], (CameraZ(a) * 6) \div 10),
                      Num(BoxCenter10(a)[3], CameraZ(a))),
     !.near = Num(0, CameraZ(a) \div 100),
     !.far = Num(0, CameraZ(a) * 100)]

\* lines 261-262: controls?.target.copy(center)
FitControls(ctl, a) ==
  IF ctl = NULL THEN ctl
  ELSE [ctl EXCEPT !.target = Vec(Num(BoxCenter10(a)[1], 0),
                                  Num(BoxCenter10(a)[2], 0),
                                  Num(BoxCenter10(a)[3], 0))]

--------------------------------------------------------------------------
(* GLTFLoader.load callbacks, lines 357-383 *)

\* lines 361-374: what root.traverse leaves on the meshes of asset a, under
\* the props p as they are when the callback runs
Traversed(a, p) ==
  IF a.empty THEN [asset |-> a, material |-> NULL]
  ELSE [ asset |-> a,
         castShadow |-> p.enableShadows,
         receiveShadow |-> p.enableShadows,
         material |->
           IF "envMapIntensity" \in DOMAIN a.material
           THEN [a.material EXCEPT !.envMapIntensity = p.envMapIntensity,
                                   !.needsUpdate = TRUE]
           ELSE a.material ]

Pending(reqs) == {r \in DOMAIN reqs : reqs[r].state = "pending"}

\* lines 359-378: the success callback of a pending mesh load, with result a.
\* scene!.add and camera! are plain dereferences once compiled: on a null
\* handle they raise a TypeError and the rest of the callback is skipped.
MeshLoadSuccess(i) ==
  /\ Idle
  /\ \E r \in Pending(meshReqs[i]), a \in Assets :
       /\ meshReqs' = [meshReqs EXCEPT ![i][r].state = "loaded"]
       /\ root' = [root EXCEPT ![i] = Traversed(a, props[i])]
       /\ IF scene[Slot(i)] = NULL
          THEN /\ thrown' = thrown \cup {<<i, "meshLoad">>}
               /\ UNCHANGED <<scene, camera, controls>>
          ELSE /\ scene' = [scene EXCEPT ![Slot(i)].children = Append(@, "model")]
               /\ IF camera[Slot(i)] = NULL
                  THEN /\ thrown' = thrown \cup {<<i, "meshLoad">>}
                       /\ UNCHANGED <<camera, controls>>
                  ELSE /\ camera' = [camera EXCEPT ![Slot(i)] = FitCamera(@, a)]
                       /\ controls' = [controls EXCEPT ![Slot(i)] = FitControls(@, a)]
                       /\ thrown' = thrown
  /\ UNCHANGED <<insts, lifecycle, props, container, renderer, animId, disposed,
                 envReqs, rafPending, rafNext, resizeListeners, unmountHooks, log,
                 drawCalls, pc, mountProps, resizeCalls>>

\* an error callback that also stops the render loop of the instance
MeshLoadErrorStopsLoop(i) ==
  /\ Idle
  /\ \E r \in Pending(meshReqs[i]) :
       meshReqs' = [meshReqs EXCEPT ![i][r].state = "failed"]
  /\ log' = Append(log, <<i, "Failed to load GLB:">>)
  /\ rafPending' = rafPending \ Scheduled(i)
  /\ UNCHANGED <<insts, lifecycle, props, container, renderer, scene, camera,
                 controls, animId, disposed, root, envReqs, rafNext,
                 resizeListeners, unmountHooks, thrown, drawCalls, pc, mountProps,
                 resizeCalls>>

\* lines 380-382: the error callback of a pending mesh load
MeshLoadError(i) ==
  /\ Idle
  /\ \E r \in Pending(meshReqs[i]) :
       meshReqs' = [meshReqs EXCEPT ![i][r].state = "failed"]
  /\ log' = Append(log, <<i, "Failed to load GLB:">>)
  /\ UNCHANGED <<insts, lifecycle, props, container, renderer, scene, camera,
                 controls, animId, disposed, root, envReqs, rafPending, rafNext,
                 resizeListeners, unmountHooks, thrown, drawCalls, pc, mountProps,
                 resizeCalls>>

--------------------------------------------------------------------------
(* RGBELoader.load callbacks, lines 337-351 *)

\* a success callback that replaces the background only while the scene has
\* no model yet
EnvLoadSuccessBeforeModelOnly(i) ==
  /\ Idle
  /\ \E r \in Pending(envReqs[i]) :
       /\ envReqs' = [envReqs EXCEPT ![i][r].state = "loaded"]
       /\ IF scene[Slot(i)] = NULL
          THEN /\ thrown' = thrown \cup {<<i, "envLoad">>}
               /\ scene' = scene
          ELSE /\ scene' = [scene EXCEPT
                              ![Slot(i)].environment = [texture |-> envReqs[i][r].url],
                              ![Slot(i)].background =
                                 IF /\ props[i].useEnvAsBackground
                                    /\ props[i].background = NULL
                                    /\ Len(scene[Slot(i)].children) = Len(NewScene(props[i]).children)
                                 THEN [texture |-> envReqs[i][r].url]
                                 ELSE @]
               /\ thrown' = thrown
  /\ UNCHANGED <<insts, lifecycle, props, container, renderer, camera, controls,
                 animId, disposed, root, meshReqs, rafPending, rafNext,
                 resizeListeners, unmountHooks, log, drawCalls, pc, mountProps,
                 resizeCalls>>

\* lines 339-346, under the props as they are when the callback runs
EnvLoadSuccess(i) ==
  /\ Idle
  /\ \E r \in Pending(envReqs[i]) :
       /\ envReqs' = [envReqs EXCEPT ![i][r].state = "loaded"]
       /\ IF scene[Slot(i)] = NULL
          THEN /\ thrown' = thrown \cup {<<i, "envLoad">>}
               /\ scene' = scene
          ELSE /\ scene' = [scene EXCEPT
                              ![Slot(i)].environment = [texture |-> envReqs[i][r].url],
                              ![Slot(i)].background =
                                 IF props[i].useEnvAsBackground /\ props[i].background = NULL
                                 THEN [texture |-> envReqs[i][r].url]
                                 ELSE @]
               /\ thrown' = thrown
  /\ UNCHANGED <<insts, lifecycle, props, container, renderer, camera, controls,
                 animId, disposed, root, meshReqs, rafPending, rafNext,
                 resizeListeners, unmountHooks, log, drawCalls, pc, mountProps,
                 resizeCalls>>

\* lines 348-350
EnvLoadError(i) ==
  /\ Idle
  /\ \E r \in Pending(envReqs[i]) :
       envReqs' = [envReqs EXCEPT ![i][r].state = "failed"]
  /\ log' = Append(log, <<i, "Failed to load HDR env map:">>)
  /\ UNCHANGED <<insts, lifecycle, props, container, renderer, scene, camera,
                 controls, animId, disposed, root, meshReqs, rafPending, rafNext,
                 resizeListeners, unmountHooks, thrown, drawCalls, pc, mountProps,
                 resizeCalls>>

--------------------------------------------------------------------------
(* watch(() => props.src, ...), lines 413-418 *)

\* a watcher that reloads the model from the new src
WatchSrcReloads(reqs, src) == Append(reqs, [url |-> src, state |-> "pending"])

\* the watcher callback has an empty body: the requests issued stay as they are
WatchSrc(reqs, src) == reqs

\* the parent passes new props to a mounted viewer; a changed src runs the watcher
PropChange(i) ==
  /\ Idle
  /\ lifecycle[i] = "mounted"
  /\ \E p \in Configs \ {props[i]} :
       /\ props' = [props EXCEPT ![i] = p]
       /\ meshReqs' = [meshReqs EXCEPT ![i] =
                         IF p.src # props[i].src THEN WatchSrc(@, p.src) ELSE @]
  /\ UNCHANGED <<insts, lifecycle, container, renderer, scene, camera, controls,
                 animId, disposed, root, envReqs, rafPending, rafNext,
                 resizeListeners, unmountHooks, log, thrown, drawCalls, pc,
                 mountProps, resizeCalls>>

--------------------------------------------------------------------------
(* onUnmounted, lines 406-410, and cleanup, lines 235-243 *)

\* cleanup() without line 236
CleanupOrderNoCancel ==
  << "controls.dispose", "renderer.dispose", "renderer = null", "controls = null",
     "scene = null", "camera = null" >>

\* cleanup() with line 236 moved behind the disposals
CleanupOrderCancelLast ==
  << "controls.dispose", "renderer.dispose", "cancelAnimationFrame",
     "renderer = null", "controls = null", "scene = null", "camera = null" >>

\* cleanup() without line 241
CleanupOrderKeepsScene ==
  << "cancelAnimationFrame", "controls.dispose", "renderer.dispose",
     "renderer = null", "controls = null", "camera = null" >>

\* the statements of cleanup(), in program order
CleanupOrder ==
  << "cancelAnimationFrame",   \* line 236
     "controls.dispose",       \* line 237
     "renderer.dispose",       \* line 238
     "renderer = null",        \* line 239
     "controls = null",        \* line 240
     "scene = null",           \* line 241
     "camera = null" >>        \* line 242

\* Vue unmounts instance i: the template ref is cleared, then the unmounted
\* hook (if one was registered) removes the listener (line 408) and enters
\* cleanup (line 409).
Unmount(i) ==
  /\ Idle
  /\ lifecycle[i] = "mounted"
  /\ lifecycle' = [lifecycle EXCEPT ![i] = "unmounted"]
  /\ container' = [container EXCEPT ![i] = NULL]
  /\ resizeListeners' = IF i \in unmountHooks THEN resizeListeners \ {i}
                                              ELSE resizeListeners
  /\ pc' = [pc EXCEPT ![i] = IF i \in unmountHooks THEN 1 ELSE 0]
  /\ UNCHANGED <<insts, props, renderer, scene, camera, controls, animId, disposed,
                 root, meshReqs, envReqs, rafPending, rafNext, unmountHooks, log,
                 thrown, drawCalls, mountProps, resizeCalls>>

\* one statement of cleanup()
CleanupStmt(i, stmt) ==
  /\ rafPending' =
       IF stmt = "cancelAnimationFrame" /\ animId[Slot(i)] # NoHandle
       THEN {f \in rafPending : f[1] # animId[Slot(i)]}
       ELSE rafPending
  /\ disposed' =
       [disposed EXCEPT
          ![Slot(i)].controls =
             @ \/ (stmt = "controls.dispose" /\ controls[Slot(i)] # NULL),
          ![Slot(i)].renderer =
             @ \/ (stmt = "renderer.dispose" /\ renderer[Slot(i)] # NULL)]
  /\ renderer' = IF stmt = "renderer = null"
                 THEN [renderer EXCEPT ![Slot(i)] = NULL] ELSE renderer
  /\ controls' = IF stmt = "controls = null"
                 THEN [controls EXCEPT ![Slot(i)] = NULL] ELSE controls
  /\ scene' = IF stmt = "scene = null"
              THEN [scene EXCEPT ![Slot(i)] = NULL] ELSE scene
  /\ camera' = IF stmt = "camera = null"
               THEN [camera EXCEPT ![Slot(i)] = NULL] ELSE camera

Cleanup(i) ==
  /\ pc[i] > 0
  /\ CleanupStmt(i, CleanupOrder[pc[i]])
  /\ pc' = [pc EXCEPT ![i] = IF @ = Len(CleanupOrder) THEN 0 ELSE @ + 1]
  /\ UNCHANGED <<insts, lifecycle, props, container, animId, root, meshReqs,
                 envReqs, rafNext, resizeListeners, unmountHooks, log, thrown,
                 drawCalls, mountProps, resizeCalls>>

--------------------------------------------------------------------------
Next ==
  \/ \E i \in insts : Mount(i)
  \/ \E i \in insts : Tick(i)
  \/ \E i \in insts : ResizeEvent(i)
  \/ \E i \in insts : MeshLoadSuccess(i)
  \/ \E i \in insts : MeshLoadError(i)
  \/ \E i \in insts : EnvLoadSuccess(i)
  \/ \E i \in insts : EnvLoadError(i)
  \/ \E i \in insts : PropChange(i)
  \/ \E i \in insts : Unmount(i)
  \/ \E i \in insts : Cleanup(i)

Spec == Init /\ [][Next]_vars

\* The browser runs every scheduled frame callback (the page stays visible).
FairSpec == Spec /\ \A i \in InstIds : WF_vars(Tick(i))

--------------------------------------------------------------------------
(* onResize as a function of the variables it closes over: the listener of *)
(* instance 1 is invoked on every combination of present / absent          *)
(* container, renderer, camera and scene/controls of a session that was    *)
(* mounted in a container of mw x mh.                                      *)

ResizeInit ==
  \E p \in Configs, mw \in Dims, mh \in Dims,
     c \in {NULL} \cup [clientWidth : Dims, clientHeight : Dims],
     hasRenderer \in BOOLEAN, hasCamera \in BOOLEAN, hasScene \in BOOLEAN :
    LET width == OrElse(mw, DefaultWidth)
        height == OrElse(mh, DefaultHeight)
        live == c # NULL /\ hasRenderer /\ hasCamera /\ hasScene
        Only1(v, d) == [i \in InstIds |-> IF i = 1 THEN v ELSE d]
    IN  /\ insts = {1}
        /\ lifecycle = Only1(IF live THEN "mounted" ELSE "unmounted", "setup")
        /\ props = Only1(p, DefaultProps)
        /\ mountProps = Only1(p, NULL)
        /\ container = Only1(c, NULL)
        /\ renderer = Only1(IF hasRenderer THEN NewRenderer(width, height, p) ELSE NULL, NULL)
        /\ camera = Only1(IF hasCamera THEN NewCamera(width, height) ELSE NULL, NULL)
        /\ scene = Only1(IF hasScene THEN NewScene(p) ELSE NULL, NULL)
        /\ controls = Only1(IF hasScene THEN NewControls ELSE NULL, NULL)
        /\ animId = Only1(1, NoHandle)
        /\ disposed = Only1([controls |-> ~live, renderer |-> ~live],
                            [controls |-> FALSE, renderer |-> FALSE])
        /\ root = [i \in InstIds |-> NULL]
        /\ meshReqs = Only1(<<[url |-> p.src, state |-> "pending"]>>, <<>>)
        /\ envReqs = Only1(IF p.envMap # NoPath
                           THEN <<[url |-> p.envMap, state |-> "pending"]>>
                           ELSE <<>>, <<>>)
        /\ rafPending = IF live THEN {<<1, 1>>} ELSE {}
        /\ rafNext = NextHandle(1)
        /\ resizeListeners = {1}
        /\ unmountHooks = {1}
        /\ log = <<>>
        /\ thrown = {}
        /\ drawCalls = Only1(1, 0)
        /\ pc = [i \in InstIds |-> 0]
        /\ resizeCalls = [i \in InstIds |-> 0]

CallOnResize == \E i \in insts, w \in Dims, h \in Dims : DeliverResize(i, w, h)

ResizeSpec == ResizeInit /\ [][CallOnResize]_vars

--------------------------------------------------------------------------
(* Two viewers on one page: both instances exist from the start, each in    *)
(* a container of its own, with the default props.  The page mounts them,   *)
(* the browser runs their frames, and the page unmounts them, in any order. *)

TwoInit ==
  /\ InitWith({1, 2})
  /\ \A i \in InstIds : props[i] = DefaultProps
  /\ \A i \in InstIds : container[i] # NULL
  /\ \A i \in InstIds : container[i].clientWidth = container[i].clientHeight

TwoNext ==
  \/ \E i \in insts : Mount(i)
  \/ \E i \in insts : Tick(i)
  \/ \E i \in insts : Unmount(i)
  \/ \E i \in insts : Cleanup(i)

TwoSpec == TwoInit /\ [][TwoNext]_vars

--------------------------------------------------------------------------
(* Twin viewers: two instances with the same props (an environment map      *)
(* configured) and containers of the same size, whose two loads both        *)
(* succeed while mounted.  Viewer 1 sees the mesh load complete first,      *)
(* viewer 2 the environment-map load.                                       *)

TwinInit ==
  /\ InitWith({1, 2})
  /\ props[1] = props[2]
  /\ props[1].envMap # NoPath
  /\ container[1] # NULL
  /\ container[1] = container[2]

\* the mesh load of instance i completes while its env-map load is pending
MeshFirst(i) == Pending(envReqs[i]) # {} /\ MeshLoadSuccess(i)

\* the env-map load of instance i completes after its mesh load
EnvSecond(i) == Pending(meshReqs[i]) = {} /\ EnvLoadSuccess(i)

\* the env-map load of instance i completes while its mesh load is pending
EnvFirst(i) == Pending(meshReqs[i]) # {} /\ EnvLoadSuccess(i)

\* the mesh load of instance i completes after its env-map load
MeshSecond(i) == Pending(envReqs[i]) = {} /\ MeshLoadSuccess(i)

TwinNext ==
  \/ \E i \in insts : Mount(i)
  \/ MeshFirst(1)
  \/ EnvSecond(1)
  \/ EnvFirst(2)
  \/ MeshSecond(2)

TwinSpec == TwinInit /\ [][TwinNext]_vars

--------------------------------------------------------------------------
(* Properties *)

\* the mounted hook of instance i created a session (it passed line 266)
Session(i) == i \in unmountHooks

AllHandlesLive(i) ==
  renderer[i] # NULL /\ scene[i] # NULL /\ camera[i] # NULL /\ controls[i] # NULL

AllHandlesNull(i) ==
  renderer[i] = NULL /\ scene[i] = NULL /\ camera[i] = NULL /\ controls[i] = NULL

\* C1: once the unmounted hook of a viewer has started, its render target
\* receives no further draw call and no tick of the viewer runs (none
\* requests a new frame), whatever resize, tick and load events came before
\* or come after, and once cleanup has returned no frame callback of the
\* viewer is scheduled.
C1_NoDrawAfterUnmount ==
  /\ [](\A i \in InstIds :
          lifecycle[i] = "unmounted" /\ pc[i] = 0 => Scheduled(i) = {})
  /\ [][\A i \in InstIds :
          lifecycle[i] = "unmounted" =>
            /\ drawCalls'[i] = drawCalls[i]
            /\ animId'[i] = animId[i]]_vars

\* a viewer that drew, was resized, was unmounted, and whose mesh load
\* completed only afterwards
C1_Witness ==
  /\ lifecycle[1] = "unmounted" /\ pc[1] = 0 /\ Session(1)
  /\ drawCalls[1] > 0 /\ resizeCalls[1] > 0
  /\ <<1, "meshLoad">> \in thrown
  /\ Scheduled(1) = {}

\* C2: the mesh-load success callback never raises an exception, in
\* particular not when it fires after the viewer was unmounted.
C2_LateMeshLoadDoesNotThrow ==
  \A i \in InstIds : <<i, "meshLoad">> \notin thrown

\* C3: in every state, cleanup's statements included, a viewer whose
\* controls or renderer are disposed, or one of whose handles was nulled by
\* cleanup, has no frame callback scheduled.
C3_CancelBeforeDispose ==
  \A i \in InstIds :
    (\/ disposed[i].controls
     \/ disposed[i].renderer
     \/ (Session(i) /\ ~AllHandlesLive(i)))
    => Scheduled(i) = {}

\* cleanup has cancelled the frame and disposed the controls, nothing more
C3_Witness ==
  /\ pc[1] = 3 /\ disposed[1].controls /\ ~disposed[1].renderer
  /\ AllHandlesLive(1) /\ animId[1] # NoHandle /\ Scheduled(1) = {}

\* C4 as claimed: between callbacks the four handles are all null or all
\* non-null, and after unmount the four handles and animId are null.
C4_AllReferencesNulled ==
  \A i \in InstIds :
    pc[i] = 0 =>
      /\ AllHandlesLive(i) \/ AllHandlesNull(i)
      /\ lifecycle[i] = "unmounted" => AllHandlesNull(i) /\ animId[i] = NoHandle

\* C4 amended: between callbacks the four handles are all null or all
\* non-null; after unmount the four handles are null and no frame callback
\* is scheduled, while animId keeps the handle that cleanup cancelled.
C4_HandlesNulledTogether ==
  \A i \in InstIds :
    pc[i] = 0 =>
      /\ AllHandlesLive(i) \/ AllHandlesNull(i)
      /\ lifecycle[i] = "mounted" /\ Session(i) => AllHandlesLive(i)
      /\ lifecycle[i] = "unmounted" => AllHandlesNull(i) /\ Scheduled(i) = {}
      /\ lifecycle[i] = "unmounted" /\ Session(i) => animId[i] # NoHandle

C4_Witness ==
  /\ lifecycle[1] = "unmounted" /\ pc[1] = 0 /\ Session(1)
  /\ AllHandlesNull(1) /\ animId[1] # NoHandle
  /\ disposed[1].renderer /\ disposed[1].controls

\* C5: a viewer mounted without a container has no handle, no mesh or
\* environment request, no scheduled frame, no draw, no resize listener and
\* no unmounted hook, whatever happens after the mounted hook returned.
C5_MissingContainerAborts ==
  \A i \in InstIds :
    lifecycle[i] = "mounted" /\ container[i] = NULL =>
      /\ AllHandlesNull(i) /\ animId[i] = NoHandle
      /\ meshReqs[i] = <<>> /\ envReqs[i] = <<>>
      /\ Scheduled(i) = {} /\ drawCalls[i] = 0
      /\ i \notin resizeListeners /\ i \notin unmountHooks

\* mounted without a container, and the parent changed the props since
C5_Witness ==
  /\ lifecycle[1] = "mounted" /\ container[1] = NULL
  /\ props[1] # mountProps[1]

\* C6: a step in which a mesh request of a mounted viewer turns from pending
\* to failed leaves scene, camera, controls and renderer as they were, keeps
\* a frame callback scheduled, raises nothing and adds exactly one log
\* entry; and as long as no mesh was loaded the camera keeps the default
\* near/far planes 0.1/1000 and position, and the controls their target.
C6_MeshFailureNonFatal ==
  /\ [](\A i \in InstIds :
          (lifecycle[i] = "mounted" /\ Session(i)
           /\ \A r \in DOMAIN meshReqs[i] : meshReqs[i][r].state # "loaded")
          => /\ camera[i].near = Num(1, 0) /\ camera[i].far = Num(10000, 0)
             /\ camera[i].position = Zero3
             /\ controls[i].target = Zero3)
  /\ [][\A i \in InstIds :
          (/\ lifecycle[i] = "mounted"
           /\ \E r \in DOMAIN meshReqs[i] :
                /\ meshReqs[i][r].state = "pending"
                /\ r \in DOMAIN meshReqs'[i]
                /\ meshReqs'[i][r].state = "failed")
          => /\ scene'[i] = scene[i] /\ camera'[i] = camera[i]
             /\ controls'[i] = controls[i] /\ renderer'[i] = renderer[i]
             /\ Scheduled(i) # {} /\ Scheduled(i)' = Scheduled(i)
             /\ thrown' = thrown
             /\ Len(log') = Len(log) + 1]_vars

\* the mesh load of a mounted viewer failed and the loop went on
C6_Witness ==
  /\ lifecycle[1] = "mounted" /\ Session(1)
  /\ meshReqs[1][1].state = "failed"
  /\ Len(log) > 0
  /\ Scheduled(1) # {} /\ drawCalls[1] > 1
  /\ "ground" \in {scene[1].children[k] : k \in DOMAIN scene[1].children}

\* C7: a viewer whose mount created a session has issued exactly one mesh
\* load, for the src it had at mount; a viewer without session none.
C7_ExactlyOneMeshLoad ==
  \A i \in InstIds :
    IF Session(i)
    THEN Len(meshReqs[i]) = 1 /\ meshReqs[i][1].url = mountProps[i].src
    ELSE meshReqs[i] = <<>>

\* the load failed, the src prop changed, resizes and ticks happened
C7_Witness ==
  /\ Session(1) /\ lifecycle[1] = "mounted"
  /\ meshReqs[1][1].state = "failed"
  /\ props[1].src # mountProps[1].src
  /\ resizeCalls[1] > 0 /\ drawCalls[1] > 1

\* C8: a mounted viewer with a session always has a frame callback
\* scheduled; a step that consumes a scheduled callback of a mounted viewer
\* issues one draw and schedules the next callback; a viewer's schedule
\* becomes empty only in its unmounted hook; and, frames being run fairly,
\* the loop of a mounted viewer does not come to rest: it goes on until the
\* viewer is unmounted or the frame requests within the bound of the model
\* are used up.
C8_LoopRunsUntilUnmount ==
  /\ [](\A i \in InstIds :
          lifecycle[i] = "mounted" /\ Session(i) => Scheduled(i) # {})
  /\ [][\A i \in InstIds :
          /\ (lifecycle[i] = "mounted" /\ ~(Scheduled(i) \subseteq rafPending'))
             => /\ drawCalls'[i] = drawCalls[i] + 1
                /\ Scheduled(i)' # {}
          /\ (Scheduled(i) # {} /\ Scheduled(i)' = {})
             => lifecycle[i] = "unmounted" /\ pc[i] > 0]_vars
  /\ \A i \in InstIds :
       (lifecycle[i] = "mounted" /\ Session(i) /\ HandlesLeft)
          ~> (lifecycle[i] # "mounted" \/ ~HandlesLeft)

\* still running after resizes and a resolved mesh load
C8_Witness ==
  /\ lifecycle[1] = "mounted" /\ Session(1)
  /\ Scheduled(1) # {} /\ drawCalls[1] = MaxRafId
  /\ resizeCalls[1] > 0
  /\ meshReqs[1][1].state # "pending"

\* C9: an invocation of onResize that finds the container, the renderer or
\* the camera absent changes no handle, no size, no camera parameter and no
\* other session state, and raises nothing.
C9_GuardedResizeIsNoOp ==
  [][\A i \in InstIds :
       (/\ resizeCalls'[i] # resizeCalls[i]
        /\ (container'[i] = NULL \/ renderer[i] = NULL \/ camera[i] = NULL))
       => /\ UNCHANGED handles
          /\ UNCHANGED <<rafPending, drawCalls, thrown, log, disposed>>]_vars

\* onResize ran with a container and a camera but no renderer
C9_Witness ==
  /\ resizeCalls[1] > 0
  /\ container[1] # NULL /\ renderer[1] = NULL /\ camera[1] # NULL

\* C10: once a mounted viewer was notified of a resize, its render-target
\* size is the container's size at the latest notification and its camera
\* aspect is that width over that height; a notification that repeats the
\* dimensions of the one before changes neither renderer nor camera.
C10_ResizeTracksContainer ==
  /\ [](\A i \in InstIds :
          (lifecycle[i] = "mounted" /\ resizeCalls[i] > 0) =>
            LET w == container[i].clientWidth
                h == container[i].clientHeight
                a == camera[i].aspect
            IN  /\ renderer[i].width = w /\ renderer[i].height = h
                /\ IF h > 0 THEN a[2] > 0 /\ a[1] * h = a[2] * w
                   ELSE a[2] = 0 /\ (a[1] = 0 <=> w = 0))
  /\ [][\A i \in InstIds :
          (/\ lifecycle[i] = "mounted" /\ resizeCalls[i] > 0
           /\ resizeCalls'[i] # resizeCalls[i]
           /\ container'[i] = container[i])
          => renderer'[i] = renderer[i] /\ camera'[i] = camera[i]]_vars

\* resized to a size different from the one at mount, and repeated
C10_Witness ==
  /\ lifecycle[1] = "mounted" /\ resizeCalls[1] = MaxResizes
  /\ container[1] = [clientWidth |-> 1, clientHeight |-> 2]
  /\ renderer[1].width = 1 /\ renderer[1].height = 2
  /\ camera[1].aspect = <<1, 2>>

--------------------------------------------------------------------------
\* the extents of an asset's bounding box are all positive
PositiveExtents(a) == \A j \in 1 .. 3 : BoxSize(a)[j] > 0

\* the extents of an asset's bounding box are all zero (a point, or nothing)
ZeroExtents(a) == \A j \in 1 .. 3 : BoxSize(a)[j] = 0

\* the session of instance i has fitted its camera to a loaded asset
Fitted(i) ==
  /\ camera[i] # NULL
  /\ root[i] # NULL
  /\ <<i, "meshLoad">> \notin thrown

\* C11: once the camera of a session has been fitted to a loaded asset whose
\* extents are positive, its near plane is positive and its far plane lies
\* strictly beyond it; the far distance is the near distance times 100 * 100
\* (distance / 100 and distance * 100).
C11_FitPlanesPositive ==
  \A i \in insts :
    (Fitted(i) /\ PositiveExtents(root[i].asset)) =>
       /\ IsPositive(camera[i].near)
       /\ LessThan(camera[i].near, camera[i].far)
       /\ camera[i].far = Num(0, camera[i].near.k * 10000)

\* a mounted session fitted to the 2 x 4 x 2 box: near 4K/100, far 400K
C11_Witness ==
  /\ lifecycle[1] = "mounted"
  /\ Fitted(1)
  /\ BoxSize(root[1].asset) = <<2, 4, 2>>
  /\ camera[1].near = Num(0, 4)
  /\ camera[1].far = Num(0, 40000)

\* C12: a camera fitted to an asset whose bounding box has no extent still
\* has a positive near plane and a far plane strictly beyond it.
C12_DegenerateFitKeepsPlanes ==
  \A i \in insts :
    (Fitted(i) /\ ZeroExtents(root[i].asset)) =>
       /\ IsPositive(camera[i].near)
       /\ LessThan(camera[i].near, camera[i].far)

--------------------------------------------------------------------------
\* the environment-map load of instance i has completed successfully
EnvLoaded(i) == \E r \in DOMAIN envReqs[i] : envReqs[i][r].state = "loaded"

\* the environment texture instance i asked for at mount
EnvTexture(i) == [texture |-> mountProps[i].envMap]

\* C13: the configuration is a snapshot taken at mount.  The shadow flags and
\* the environment intensity found on the loaded meshes, and the decision
\* whether the environment map replaces the background, are those of the
\* props as they were at mount, also when the props change between mount and
\* the completion of a load.
C13_ConfigSnapshotAtMount ==
  \A i \in insts :
    (lifecycle[i] = "mounted" /\ Session(i)) =>
       /\ (root[i] # NULL /\ ~root[i].asset.empty) =>
             /\ root[i].castShadow = mountProps[i].enableShadows
             /\ root[i].receiveShadow = mountProps[i].enableShadows
             /\ ("envMapIntensity" \in DOMAIN root[i].material) =>
                   root[i].material.envMapIntensity = mountProps[i].envMapIntensity
       /\ (scene[i] # NULL /\ EnvLoaded(i)) =>
             ((scene[i].background = EnvTexture(i))
                <=> (mountProps[i].useEnvAsBackground /\ mountProps[i].background = NULL))

\* C14: a successful environment-map load installs the texture as the scene
\* environment and replaces the background only when useEnvAsBackground is
\* set and no explicit background was configured; an explicit background
\* colour set at mount is the scene background in every later state of the
\* session; without a configured envMap no environment load is issued.
C14_EnvMapBackgroundPrecedence ==
  \A i \in insts :
    /\ (scene[i] # NULL /\ EnvLoaded(i)) =>
          /\ scene[i].environment = EnvTexture(i)
          /\ (scene[i].background = EnvTexture(i)) =>
                (mountProps[i].useEnvAsBackground /\ mountProps[i].background = NULL)
    /\ (scene[i] # NULL /\ mountProps[i].background # NULL) =>
          scene[i].background = [color |-> ParseHex(mountProps[i].background)]
    /\ (mountProps[i] # NULL /\ mountProps[i].envMap = NoPath) => envReqs[i] = <<>>

--------------------------------------------------------------------------
\* how many ground discs the scene graph scn holds
GroundCount(scn) == Cardinality({k \in DOMAIN scn.children : scn.children[k] = "ground"})

\* C15: the step that builds a session leaves, with background omitted, a
\* transparent render target (alpha on, scene background null) and, with the
\* default props, one load of /models/UtensilsJar001.glb; with an explicit
\* background, alpha is off and the scene background is that colour
\* (#20232a is 2106154).  As long as the scene exists it holds the ground
\* disc exactly when enableGround was set at mount, whatever happens later.
C15_SceneCompositionAtMount ==
  /\ [](\A i \in insts :
          (scene[i] # NULL) =>
             GroundCount(scene[i]) = IF mountProps[i].enableGround THEN 1 ELSE 0)
  /\ [](\A i \in insts :
          (renderer[i] # NULL) =>
             renderer[i].alpha = (mountProps[i].background = NULL))
  /\ [][\A i \in insts :
          (scene[i] = NULL /\ scene'[i] # NULL) =>
             /\ meshReqs'[i] = <<[url |-> props[i].src, state |-> "pending"]>>
             /\ (props[i] = DefaultProps) =>
                   meshReqs'[i][1].url = "/models/UtensilsJar001.glb"
             /\ (props[i].background = NULL) =>
                   (renderer'[i].alpha /\ scene'[i].background = NULL)
             /\ (props[i].background = Hex20232a) =>
                   (~renderer'[i].alpha /\ scene'[i].background = [color |-> 2106154])
       ]_vars

\* a session mounted with a background colour and without ground, after a
\* load, resizes and a change of the props to a config that asks for ground
C15_Witness ==
  /\ lifecycle[1] = "mounted"
  /\ mountProps[1] # NULL
  /\ mountProps[1].background = Hex20232a
  /\ ~mountProps[1].enableGround
  /\ props[1].enableGround
  /\ resizeCalls[1] > 0
  /\ ~renderer[1].alpha
  /\ scene[1].children = <<"hemi", "dirLight", "rimLight", "model">>

--------------------------------------------------------------------------
\* C16: an environment-map load that completes after the session was torn
\* down is harmless: its success callback does not throw, and the step leaves
\* the nulled session handles as they are.
C16_LateEnvLoadDoesNotThrow ==
  /\ [](\A i \in insts : <<i, "envLoad">> \notin thrown)
  /\ [][\A i \in insts :
          (lifecycle[i] = "unmounted" /\ envReqs'[i] # envReqs[i]) =>
             (scene'[i] = scene[i] /\ renderer'[i] = renderer[i]
                /\ camera'[i] = camera[i] /\ controls'[i] = controls[i])
       ]_vars

--------------------------------------------------------------------------
\* C18: while a session is mounted, between callbacks exactly one frame
\* callback of it is scheduled and animId is the handle of that callback,
\* never the handle of one that already ran; hence the one cancel at the
\* start of cleanup leaves no frame callback scheduled.
C18_OnePendingFrame ==
  \A i \in insts :
    /\ (lifecycle[i] = "mounted" /\ Session(i)) =>
          (Scheduled(i) = {<<animId[i], i>>} /\ Cardinality(Scheduled(i)) = 1)
    /\ (lifecycle[i] = "unmounted" /\ pc[i] # 1) => Scheduled(i) = {}

\* a mounted session after two frames ran: the third handle is the pending one
C18_Witness ==
  /\ lifecycle[1] = "mounted" /\ Session(1)
  /\ animId[1] = 3
  /\ rafPending = {<<3, 1>>}

--------------------------------------------------------------------------
\* C20: while a session is mounted, the width and the height of its render
\* target are positive and the camera aspect is a positive finite ratio,
\* after mount and after any sequence of resizes, also when the container
\* reports a width or a height of zero.
C20_ViewportStaysPositive ==
  \A i \in insts :
    (lifecycle[i] = "mounted" /\ renderer[i] # NULL /\ camera[i] # NULL) =>
       /\ renderer[i].width > 0
       /\ renderer[i].height > 0
       /\ camera[i].aspect[1] > 0
       /\ camera[i].aspect[2] > 0

--------------------------------------------------------------------------
\* the frame callbacks of instance j scheduled after the step
ScheduledNext(j) == {f \in rafPending' : f[2] = j}

\* the step belongs to the teardown of instance i: its unmounted hook
\* starts, or cleanup executes one of its statements
TeardownStep(i) ==
  \/ lifecycle[i] = "mounted" /\ lifecycle'[i] = "unmounted"
  \/ pc[i] > 0 /\ pc'[i] # pc[i]

\* C17: a session belongs to one viewer instance.  With two viewers on the
\* page, every mounted session has all its handles non-null, undisposed, and
\* a frame scheduled, whatever the other viewer did; no step of the teardown
\* of one viewer changes the handles, the scheduled frame or the draw count
\* of the other; and a frame of a mounted viewer that runs after the other
\* was unmounted still draws and requests the next frame.
C17_SessionsIndependent ==
  /\ [](\A j \in insts :
          (lifecycle[j] = "mounted" /\ Session(j)) =>
             /\ AllHandlesLive(j)
             /\ Scheduled(j) # {}
             /\ ~disposed[j].renderer /\ ~disposed[j].controls)
  /\ [][\A i \in insts : \A j \in insts \ {i} :
          TeardownStep(i) =>
             /\ renderer'[j] = renderer[j] /\ scene'[j] = scene[j]
             /\ camera'[j] = camera[j] /\ controls'[j] = controls[j]
             /\ animId'[j] = animId[j]
             /\ ScheduledNext(j) = Scheduled(j)
             /\ drawCalls'[j] = drawCalls[j]
       ]_vars
  /\ [][\A i \in insts : \A j \in insts \ {i} :
          ( /\ lifecycle[i] = "unmounted"
            /\ lifecycle[j] = "mounted" /\ Session(j)
            /\ ~(Scheduled(j) \subseteq rafPending') ) =>
             /\ drawCalls'[j] # drawCalls[j]
             /\ ScheduledNext(j) # {}
       ]_vars

\* viewer 1 was unmounted and cleaned up; viewer 2 is still mounted, has
\* drawn twice, and the frame it has scheduled was requested after the last
\* frame request of viewer 1
C17_Witness ==
  /\ lifecycle[1] = "unmounted" /\ pc[1] = 0 /\ Session(1) /\ AllHandlesNull(1)
  /\ lifecycle[2] = "mounted" /\ Session(2) /\ AllHandlesLive(2)
  /\ animId[2] > animId[1] /\ drawCalls[2] = 2
  /\ Scheduled(2) = {<<animId[2], 2>>}

--------------------------------------------------------------------------
\* both loads of instance i have completed successfully while it was mounted
BothLoaded(i) ==
  /\ lifecycle[i] = "mounted" /\ Session(i)
  /\ meshReqs[i] # <<>>
  /\ \A r \in DOMAIN meshReqs[i] : meshReqs[i][r].state = "loaded"
  /\ envReqs[i] # <<>>
  /\ \A r \in DOMAIN envReqs[i] : envReqs[i][r].state = "loaded"
  /\ root[i] # NULL

\* C19: the completions of the mesh load and of the environment-map load
\* commute.  Of two viewers mounted alike, one completes the mesh load
\* first and the other the environment-map load first; when both loads of
\* both have succeeded with the same asset, the two sessions agree on scene
\* children, environment and background, on the shadow flags and the
\* material intensity of the meshes, on the camera and on the control
\* target.
C19_LoadCompletionsCommute ==
  (BothLoaded(1) /\ BothLoaded(2) /\ root[1].asset = root[2].asset) =>
     /\ scene[1] = scene[2]
     /\ root[1] = root[2]
     /\ camera[1] = camera[2]
     /\ controls[1] = controls[2]

\* both twins completed both loads with the cube, under a config whose
\* environment map replaces the background
C19_Witness ==
  /\ BothLoaded(1) /\ BothLoaded(2)
  /\ root[1].asset = root[2].asset
  /\ BoxSize(root[1].asset) = <<2, 2, 2>>
  /\ scene[1].background = [texture |-> StudioHdr]
  /\ scene[2].children = <<"hemi", "dirLight", "rimLight", "ground", "model">>
  /\ camera[2].near = Num(0, 2)

=============================================================================
